---- MODULE Spec2Model ----
(***************************************************************************)
(* atlas-report: the scorer (src/atlas_report/scorer.py).                  *)
(*                                                                         *)
(* compute_scores(graph) reduces a CICDGraph (an ordered list of nodes and *)
(* an ordered list of edges) to a Scores record.  The model follows one    *)
(* call of compute_scores step by step: the counting prologue, the         *)
(* recursive _compute_depth traversal of every PIPELINE node (an explicit  *)
(* call stack, one frame per active invocation), and the fragility and     *)
(* maturity epilogue.  Between two calls the caller may leave the graph    *)
(* alone or change it (add a node, reorder or drop an edge), which is how  *)
(* two results are compared.                                               *)
(*                                                                         *)
(* Numbers.  The three scores are Python floats with one decimal; they are *)
(* held here in tenths (complexity_score = 265 stands for 26.5).           *)
(* doc_coverage is held in tenths too, pinned_image_ratio as the pair      *)
(* <<pinned, images>> (<<1, 1>> is 1.0).                                   *)
(* Strings that are searched (command, str(metadata)) are sequences of     *)
(* one-character strings; strings that are only compared (tag, doc_type,   *)
(* node_type, edge_type) are strings.                                      *)
(***************************************************************************)
EXTENDS Integers, Sequences, FiniteSets, TLC

VARIABLES
    nodes,      \* graph.nodes: sequence of node records
    edges,      \* graph.edges: sequence of edge records
    pc,         \* position in compute_scores: start, pipelines, call, return, done
    s,          \* the Scores record under construction (scorer.py:47)
    todo,       \* ids of the PIPELINE nodes still to be traversed (scorer.py:60-61)
    visited,    \* the visited set of the current traversal (scorer.py:62)
    stack,      \* active _compute_depth invocations below the current one
    arg,        \* node_id of the invocation being entered
    ret,        \* value returned by the invocation that just finished
    expanded,   \* ids that passed the visited test in this traversal, in order
    entered,    \* number of _compute_depth invocations of this traversal
    calls,      \* number of compute_scores calls started on this graph object
    prev,       \* Scores returned by the previous call, NoScores before
    prevNodes,  \* graph.nodes as it was at the previous call
    prevEdges,  \* graph.edges as it was at the previous call
    lastop      \* what the caller did between the previous call and this one

vars == <<nodes, edges, pc, s, todo, visited, stack, arg, ret, expanded,
          entered, calls, prev, prevNodes, prevEdges, lastop>>

----------------------------------------------------------------------------
(* Bounds of the model.                                                    *)

MaxNodes == 3      \* nodes of a traversal graph
MaxEdges == 3      \* edges of a traversal graph
MaxLoopNodes == 2  \* nodes of a loop graph
MaxLoopEdges == 2  \* edges of a loop graph
MaxChain == 14     \* longest CALLS chain of the large graphs
MaxSecrets == 1    \* SECRET_REF nodes of an attribute graph
MaxEnvs == 2       \* ENVIRONMENT nodes of an attribute graph
MaxCalls == 2      \* compute_scores calls on one graph

----------------------------------------------------------------------------
(* Small helpers.                                                          *)

Max(a, b) == IF a >= b THEN a ELSE b
Min(a, b) == IF a <= b THEN a ELSE b

Range(f) == {f[i] : i \in DOMAIN f}

RECURSIVE Rep(_, _)
Rep(x, n) == IF n = 0 THEN <<>> ELSE <<x>> \o Rep(x, n - 1)

----------------------------------------------------------------------------
(* Python strings: str.lower() and the `in` substring test.                *)

UpperChars == <<"A", "B", "C", "D", "E", "F", "G", "H", "I", "J", "K", "L", "M",
                "N", "O", "P", "Q", "R", "S", "T", "U", "V", "W", "X", "Y", "Z">>
LowerChars == <<"a", "b", "c", "d", "e", "f", "g", "h", "i", "j", "k", "l", "m",
                "n", "o", "p", "q", "r", "s", "t", "u", "v", "w", "x", "y", "z">>

LowerChar(c) ==
    IF \E i \in DOMAIN UpperChars : UpperChars[i] = c
    THEN LowerChars[CHOOSE i \in DOMAIN UpperChars : UpperChars[i] = c]
    ELSE c

\* str.lower()
Lower(str) == [i \in DOMAIN str |-> LowerChar(str[i])]

\* sub in str
Contains(sub, str) ==
    \E i \in 1..(Len(str) - Len(sub) + 1) : SubSeq(str, i, i + Len(sub) - 1) = sub

\* str(dict) of a metadata map given as a sequence of <<key, value>> pairs of
\* strings: {'k': 'v', 'k2': 'v2'}
RECURSIVE StrItems(_)
StrItems(m) ==
    IF m = <<>> THEN <<>>
    ELSE <<"'">> \o Head(m)[1] \o <<"'", ":", " ", "'">> \o Head(m)[2] \o <<"'">>
         \o (IF Tail(m) = <<>> THEN <<>> ELSE <<",", " ">> \o StrItems(Tail(m)))

StrDict(m) == <<"{">> \o StrItems(m) \o <<"}">>

CacheWord == <<"c", "a", "c", "h", "e">>
RetryWord == <<"r", "e", "t", "r", "y">>

----------------------------------------------------------------------------
(* The graph: nodes and edges as the scorer reads them.                    *)

Ghost == 0           \* an id that is the id of no node

NoTag == "<absent>"  \* the node has no tag attribute: getattr gives "latest"

Node(id, node_type, command, metadata, tag, pinned, doc_type, parallel) ==
    [id |-> id, node_type |-> node_type, command |-> command, metadata |-> metadata,
     tag |-> tag, pinned |-> pinned, doc_type |-> doc_type, parallel |-> parallel]

Plain(id, node_type) == Node(id, node_type, <<>>, <<>>, NoTag, FALSE, "", FALSE)

Edge(edge_type, source, target) ==
    [edge_type |-> edge_type, source_node_id |-> source, target_node_id |-> target]

\* nodes get the ids 1, 2, ... in list order (ids are unique in a graph)
Renumber(ns) == [i \in DOMAIN ns |-> [ns[i] EXCEPT !.id = i]]

----------------------------------------------------------------------------
(* compute_scores, complexity part (scorer.py:50-67).                      *)

EXPECTED_DOCS == {"readme", "architecture", "runbook", "security_policy", "codeowners"}
FLOATING_TAGS == {"latest", "stable", "nightly"}
MAX_POINTS == 6

\* Scores(): the dataclass defaults (scorer.py:17-42)
NewScores ==
    [node_count |-> 0, edge_count |-> 0, max_depth |-> 0, max_fan_out |-> 0,
     complexity_score |-> 0,
     secret_count |-> 0, cross_trigger_count |-> 0, unpinned_image_count |-> 0,
     missing_doc_types |-> 0, fragility_score |-> 0,
     has_caching |-> FALSE, has_parallelism |-> FALSE, pinned_image_ratio |-> <<0, 1>>,
     doc_coverage |-> 0, has_retries |-> FALSE, has_env_isolation |-> FALSE,
     maturity_score |-> 0]

\* fan_out[key] after the loop over graph.edges
FanOutOf(es, key) == Len(SelectSeq(es, LAMBDA e : e.source_node_id = key))

\* max(fan_out.values(), default=0): the keys are the source ids of the edges
MaxFanOut(es) ==
    LET keys == {es[i].source_node_id : i \in DOMAIN es}
    IN  IF keys = {} THEN 0
        ELSE CHOOSE m \in {FanOutOf(es, k) : k \in keys} :
                 \A k \in keys : FanOutOf(es, k) <= m

\* [n for n in graph.nodes if n.node_type == NodeType.PIPELINE], as ids
Pipelines(ns) ==
    LET ps == SelectSeq(ns, LAMBDA n : n.node_type = "PIPELINE")
    IN  [i \in DOMAIN ps |-> ps[i].id]

\* a faulty variant: the visited test never fires
IsVisited_Never(node_id, seen) == FALSE

\* the visited test of _compute_depth
IsVisited(node_id, seen) == node_id \in seen

\* the children list of _compute_depth: targets of the CALLS edges leaving node_id,
\* in edge order
Children(es, node_id) ==
    LET out == SelectSeq(es, LAMBDA e : e.source_node_id = node_id
                                        /\ e.edge_type = "CALLS")
    IN  [i \in DOMAIN out |-> out[i].target_node_id]

\* raw, in tenths; every term is a whole number of tenths, so round(raw, 1) = raw
ComplexityRaw(n, e, d, f) == (n * 10) + (e * 15) + (d * 50) + (f * 30)

\* a faulty variant: the cap is missing
ComplexityScore_NoCap(n, e, d, f) == ComplexityRaw(n, e, d, f)

\* min(round(raw, 1), 100.0), in tenths
ComplexityScore(n, e, d, f) == Min(ComplexityRaw(n, e, d, f), 1000)

----------------------------------------------------------------------------
(* compute_scores, fragility part (scorer.py:69-94).                       *)

SecretCount(ns) == Len(SelectSeq(ns, LAMBDA n : n.node_type = "SECRET_REF"))

CrossTriggerCount(es) == Len(SelectSeq(es, LAMBDA e : e.edge_type = "TRIGGERS"))

\* getattr(n, "tag", "latest")
TagOf(n) == IF n.tag = NoTag THEN "latest" ELSE n.tag

UnpinnedImageCount(ns) ==
    Len(SelectSeq(ns, LAMBDA n : n.node_type = "CONTAINER_IMAGE" /\ TagOf(n) \in FLOATING_TAGS))

FoundDocs(ns) == {ns[i].doc_type : i \in {j \in DOMAIN ns : ns[j].node_type = "DOC_FILE"}}

\* a faulty variant: every DOC_FILE node counts, duplicates included
MissingDocTypes_PerNode(ns) ==
    Max(0, Cardinality(EXPECTED_DOCS) - Len(SelectSeq(ns, LAMBDA n : n.node_type = "DOC_FILE")))

MissingDocTypes(ns) == Cardinality(EXPECTED_DOCS \ FoundDocs(ns))

FragilityRaw(secrets, triggers, unpinned, missing) ==
    (secrets * 5) + (triggers * 10) + (unpinned * 15) + (missing * 8)

\* min(round(frag_raw, 1), 100.0), in tenths; frag_raw is an int
FragilityScore(secrets, triggers, unpinned, missing) ==
    Min(10 * FragilityRaw(secrets, triggers, unpinned, missing), 1000)

----------------------------------------------------------------------------
(* compute_scores, maturity part (scorer.py:96-148).                       *)

HasCaching(ns) ==
    \E i \in DOMAIN ns : /\ ns[i].node_type = "STEP"
                         /\ Contains(CacheWord, Lower(ns[i].command))

HasParallelism(ns, max_fan_out) ==
    LET any == \E i \in DOMAIN ns : ns[i].node_type = "STAGE" /\ ns[i].parallel
    IN  IF ~any /\ max_fan_out >= 2 THEN TRUE ELSE any

\* a faulty variant: no images leaves the dataclass default 0.0
PinnedImageRatio_NoImagesZero(ns) ==
    LET images == SelectSeq(ns, LAMBDA n : n.node_type = "CONTAINER_IMAGE")
    IN  IF images # <<>>
        THEN <<Len(SelectSeq(images, LAMBDA n : n.pinned)), Len(images)>>
        ELSE <<0, 1>>

\* pinned / len(images), or 1.0 without images; as <<numerator, denominator>>
PinnedImageRatio(ns) ==
    LET images == SelectSeq(ns, LAMBDA n : n.node_type = "CONTAINER_IMAGE")
    IN  IF images # <<>>
        THEN <<Len(SelectSeq(images, LAMBDA n : n.pinned)), Len(images)>>
        ELSE <<1, 1>>

\* a faulty variant: ratio > 0.8
PinnedEnough_Strict(ratio) == 10 * ratio[1] > 8 * ratio[2]

\* ratio >= 0.8 (the float quotient p/q is >= the float 0.8 exactly when 10p >= 8q)
PinnedEnough(ratio) == 10 * ratio[1] >= 8 * ratio[2]

\* 1.0 - missing/len(expected_docs), in tenths (for missing = 4 the float is
\* 0.19999999999999996, one ulp below 0.2; no threshold is near it)
DocCoverage(missing) == 10 - ((10 * missing) \div Cardinality(EXPECTED_DOCS))

\* doc_coverage >= 0.6
DocCoverageEnough(coverage) == coverage >= 6

HasRetries(ns) ==
    \E i \in DOMAIN ns : \/ Contains(RetryWord, Lower(ns[i].command))
                         \/ Contains(RetryWord, StrDict(ns[i].metadata))

\* a faulty variant: three environments are asked for
HasEnvIsolation_Three(ns) == Len(SelectSeq(ns, LAMBDA n : n.node_type = "ENVIRONMENT")) >= 3

HasEnvIsolation(ns) == Len(SelectSeq(ns, LAMBDA n : n.node_type = "ENVIRONMENT")) >= 2

Points(b) == IF b THEN 1 ELSE 0

\* round((maturity_points / max_points) * 100, 1), in tenths (no quotient is a tie)
MaturityScore(points) == ((2 * points * 1000) + MAX_POINTS) \div (2 * MAX_POINTS)

\* scorer.py:65-150, everything after the depth loop
Finished(sc, ns, es) ==
    LET secrets   == SecretCount(ns)
        triggers  == CrossTriggerCount(es)
        unpinned  == UnpinnedImageCount(ns)
        missing   == MissingDocTypes(ns)
        caching   == HasCaching(ns)
        parallel  == HasParallelism(ns, sc.max_fan_out)
        ratio     == PinnedImageRatio(ns)
        coverage  == DocCoverage(missing)
        retries   == HasRetries(ns)
        isolation == HasEnvIsolation(ns)
        points    == Points(caching) + Points(parallel) + Points(PinnedEnough(ratio))
                     + Points(DocCoverageEnough(coverage)) + Points(retries)
                     + Points(isolation)
    IN  [sc EXCEPT
          !.complexity_score = ComplexityScore(sc.node_count, sc.edge_count,
                                               sc.max_depth, sc.max_fan_out),
          !.secret_count = secrets,
          !.cross_trigger_count = triggers,
          !.unpinned_image_count = unpinned,
          !.missing_doc_types = missing,
          !.fragility_score = FragilityScore(secrets, triggers, unpinned, missing),
          !.has_caching = caching,
          !.has_parallelism = parallel,
          !.pinned_image_ratio = ratio,
          !.doc_coverage = coverage,
          !.has_retries = retries,
          !.has_env_isolation = isolation,
          !.maturity_score = MaturityScore(points)]

----------------------------------------------------------------------------
(* The graphs the scorer is run on.                                        *)

SeqsUpTo(S, k) == UNION {[1..m -> S] : m \in 0..k}

\* Traversal graphs: PIPELINE and STAGE nodes; CALLS edges between any two ids,
\* the id of no node included (no integrity is enforced); TRIGGERS edges from
\* any id to the last node (the scorer never reads the target of such an edge
\* unless it takes it for a CALLS edge).
TraversalNodes == UNION {[1..n -> {"PIPELINE", "STAGE"}] : n \in 0..MaxNodes}

TraversalEdges(n) ==
    SeqsUpTo({Edge("CALLS", a, b) : a \in {Ghost} \cup (1..n), b \in {Ghost} \cup (1..n)}
             \cup {Edge("TRIGGERS", a, n) : a \in {Ghost} \cup (1..n)},
             MaxEdges)

\* Loop graphs: the first node is a PIPELINE; CALLS edges from any node to any id.
LoopNodes ==
    UNION {{f \in [1..n -> {"PIPELINE", "STAGE"}] : f[1] = "PIPELINE"} : n \in 1..MaxLoopNodes}

LoopEdges(n) ==
    SeqsUpTo({Edge("CALLS", a, b) : a \in 1..n, b \in {Ghost} \cup (1..n)}, MaxLoopEdges)

\* Large graphs: a pipeline calling a chain of k - 1 stages.
Chain(k) == [i \in 1..k |-> Plain(i, IF i = 1 THEN "PIPELINE" ELSE "STAGE")]
ChainEdges(k) == [i \in 1..(k - 1) |-> Edge("CALLS", i, i + 1)]

\* Attribute graphs: one option per group of nodes, concatenated.
StepNode(command) == Node(0, "STEP", command, <<>>, NoTag, FALSE, "", FALSE)
JobNode(command, metadata) == Node(0, "JOB", command, metadata, NoTag, FALSE, "", FALSE)
StageNode(parallel) == Node(0, "STAGE", <<>>, <<>>, NoTag, FALSE, "", parallel)
ImageNode(tag, pinned) == Node(0, "CONTAINER_IMAGE", <<>>, <<>>, tag, pinned, "", FALSE)
DocNode(doc_type) == Node(0, "DOC_FILE", <<>>, <<>>, NoTag, FALSE, doc_type, FALSE)

CmdMake == <<"m", "a", "k", "e">>
CmdCache == <<"s", "a", "v", "e", " ", "C", "a", "c", "h", "e">>
CmdRetry == <<"R", "E", "T", "R", "Y", " ", "3">>
KeyOnFail == <<"o", "n", "_", "f", "a", "i", "l">>
ValRetry == <<"r", "e", "t", "r", "y">>
ValRetryCap == <<"R", "e", "t", "r", "y">>
ValAbort == <<"a", "b", "o", "r", "t">>

StepOptions == {<<>>, <<StepNode(CmdMake)>>, <<StepNode(CmdCache)>>,
                <<JobNode(CmdCache, <<>>)>>}
StageOptions == {<<StageNode(FALSE)>>, <<StageNode(TRUE)>>}
RetryOptions == {<<>>, <<StepNode(CmdRetry)>>,
                 <<JobNode(<<>>, <<<<KeyOnFail, ValRetry>>>>)>>,
                 <<JobNode(<<>>, <<<<KeyOnFail, ValRetryCap>>>>)>>,
                 <<JobNode(<<>>, <<<<KeyOnFail, ValAbort>>>>)>>}
Pinned == ImageNode("3.11.7", TRUE)
Floating == ImageNode("latest", FALSE)
ImageOptions == {<<>>, <<Floating>>, <<Pinned>>,
                 Rep(Pinned, 4) \o <<Floating>>, Rep(Pinned, 3) \o <<Floating>>,
                 Rep(Floating, 3), <<ImageNode("stable", TRUE)>>,
                 <<ImageNode(NoTag, TRUE)>>, <<ImageNode("3.11.7", FALSE)>>}
DocOrder == <<"readme", "architecture", "runbook", "security_policy", "codeowners">>
DocsOf(S) ==
    LET types == SelectSeq(DocOrder, LAMBDA d : d \in S)
    IN  [i \in DOMAIN types |-> DocNode(types[i])]
DocSetOptions ==
    {DocsOf(S) : S \in SUBSET EXPECTED_DOCS}
    \cup {<<DocNode("readme"), DocNode("readme")>>,
          <<DocNode("readme"), DocNode("contributing")>>,
          <<DocNode(""), DocNode("runbook"), DocNode("runbook"), DocNode("readme")>>}
DocPrefixOptions == {DocsOf({DocOrder[i] : i \in 1..k}) : k \in 0..Len(DocOrder)}
EdgeOptions == {<<>>, <<Edge("TRIGGERS", 1, 2)>>,
                <<Edge("TRIGGERS", 1, 2), Edge("TRIGGERS", 1, 3)>>,
                <<Edge("DEPENDS_ON", 2, 1), Edge("CALLS", 1, 2)>>}

AttributeNodes(steps, stages, retry, images, docs, secrets, envs) ==
    Renumber(steps \o stages \o retry \o images \o docs
             \o Rep(Plain(0, "SECRET_REF"), secrets)
             \o Rep(Plain(0, "ENVIRONMENT"), envs))

NoScores == [NewScores EXCEPT !.node_count = -1]

\* the state before the first call of compute_scores on a graph
Fresh(ns, es) ==
    /\ nodes = ns
    /\ edges = es
    /\ pc = "start"
    /\ s = NewScores
    /\ todo = <<>>
    /\ visited = {}
    /\ stack = <<>>
    /\ arg = Ghost
    /\ ret = 0
    /\ expanded = <<>>
    /\ entered = 0
    /\ calls = 1
    /\ prev = NoScores
    /\ prevNodes = ns
    /\ prevEdges = es
    /\ lastop = "none"

InitTraversal ==
    \E types \in TraversalNodes :
        \E es \in TraversalEdges(Len(types)) :
            Fresh([i \in DOMAIN types |-> Plain(i, types[i])], es)

InitLoops ==
    \E types \in LoopNodes :
        \E es \in LoopEdges(Len(types)) :
            Fresh([i \in DOMAIN types |-> Plain(i, types[i])], es)

InitChain ==
    \E k \in 1..MaxChain : Fresh(Chain(k), ChainEdges(k))

\* the graph of tests/test_report.py:32-52 (_sample_graph)
SampleNodes ==
    Renumber(<<Plain(0, "PIPELINE"), StageNode(FALSE), StageNode(FALSE), StageNode(FALSE),
               StepNode(<<"m", "a", "k", "e", " ", "b", "u", "i", "l", "d">>),
               Plain(0, "SECRET_REF"), ImageNode("latest", FALSE), DocNode("readme"),
               Plain(0, "JOB")>>)
SampleEdges ==
    <<Edge("CALLS", 1, 2), Edge("CALLS", 1, 3), Edge("CALLS", 1, 4),
      Edge("CALLS", 2, 5), Edge("TRIGGERS", 1, 9)>>

\* a pipeline with a CALLS edge into the cycle A -> B -> A
CycleNodes == Renumber(<<Plain(0, "PIPELINE"), Plain(0, "JOB"), Plain(0, "JOB")>>)
CycleEdges == <<Edge("CALLS", 1, 2), Edge("CALLS", 2, 3), Edge("CALLS", 3, 2)>>

InitSample ==
    \/ Fresh(SampleNodes, SampleEdges)
    \/ Fresh(CycleNodes, CycleEdges)

InitFragility ==
    \E images \in ImageOptions, docs \in DocSetOptions,
       secrets \in 0..MaxSecrets, es \in EdgeOptions :
        Fresh(AttributeNodes(<<>>, <<>>, <<>>, images, docs, secrets, 0), es)

InitMaturity ==
    \E steps \in StepOptions, stages \in StageOptions, retry \in RetryOptions,
       images \in ImageOptions, docs \in DocPrefixOptions,
       envs \in 0..MaxEnvs, es \in EdgeOptions :
        Fresh(AttributeNodes(steps, stages, retry, images, docs, 0, envs), es)

InitScores == InitLoops \/ InitChain \/ InitSample \/ InitFragility \/ InitMaturity

Init == InitTraversal \/ InitScores

----------------------------------------------------------------------------
(* One call of compute_scores.                                             *)

\* scorer.py:47-60: a fresh Scores, the counts, max_fan_out, the pipeline list
Begin ==
    /\ pc = "start"
    /\ s' = [NewScores EXCEPT !.node_count = Len(nodes),
                              !.edge_count = Len(edges),
                              !.max_fan_out = MaxFanOut(edges)]
    /\ todo' = Pipelines(nodes)
    /\ pc' = "pipelines"
    /\ UNCHANGED <<nodes, edges, visited, stack, arg, ret, expanded, entered,
                   calls, prev, prevNodes, prevEdges, lastop>>

\* scorer.py:61-62: for p in pipelines: _compute_depth(graph, p.id, set())
NextPipeline ==
    /\ pc = "pipelines"
    /\ todo # <<>>
    /\ arg' = Head(todo)
    /\ todo' = Tail(todo)
    /\ visited' = {}
    /\ stack' = <<>>
    /\ expanded' = <<>>
    /\ entered' = 0
    /\ pc' = "call"
    /\ UNCHANGED <<nodes, edges, s, ret, calls, prev, prevNodes, prevEdges, lastop>>

\* scorer.py:155-156: a node already in visited returns 0
EnterVisited ==
    /\ pc = "call"
    /\ IsVisited(arg, visited)
    /\ ret' = 0
    /\ entered' = entered + 1
    /\ pc' = "return"
    /\ UNCHANGED <<nodes, edges, s, todo, visited, stack, arg, expanded,
                   calls, prev, prevNodes, prevEdges, lastop>>

\* scorer.py:157-163: a node without outgoing CALLS edge returns 1
EnterLeaf ==
    /\ pc = "call"
    /\ ~IsVisited(arg, visited)
    /\ Children(edges, arg) = <<>>
    /\ visited' = visited \cup {arg}
    /\ expanded' = Append(expanded, arg)
    /\ entered' = entered + 1
    /\ ret' = 1
    /\ pc' = "return"
    /\ UNCHANGED <<nodes, edges, s, todo, stack, arg,
                   calls, prev, prevNodes, prevEdges, lastop>>

\* scorer.py:157-164: the invocation starts max(...) over its children; the
\* generator calls _compute_depth on the first child.  best = 0 stands for "no
\* value yet": every depth is >= 0.
EnterInner ==
    /\ pc = "call"
    /\ ~IsVisited(arg, visited)
    /\ Children(edges, arg) # <<>>
    /\ visited' = visited \cup {arg}
    /\ expanded' = Append(expanded, arg)
    /\ entered' = entered + 1
    /\ stack' = Append(stack, [node_id |-> arg, children |-> Children(edges, arg),
                               i |-> 1, best |-> 0])
    /\ arg' = Children(edges, arg)[1]
    /\ pc' = "call"
    /\ UNCHANGED <<nodes, edges, s, todo, ret,
                   calls, prev, prevNodes, prevEdges, lastop>>

\* scorer.py:164: a child returned and the generator has another child
ReturnNext ==
    /\ pc = "return"
    /\ stack # <<>>
    /\ LET top == stack[Len(stack)]
       IN  /\ top.i < Len(top.children)
           /\ stack' = [stack EXCEPT ![Len(stack)] =
                            [top EXCEPT !.i = top.i + 1, !.best = Max(top.best, ret)]]
           /\ arg' = top.children[top.i + 1]
    /\ pc' = "call"
    /\ UNCHANGED <<nodes, edges, s, todo, visited, ret, expanded, entered,
                   calls, prev, prevNodes, prevEdges, lastop>>

\* scorer.py:164: the last child returned: return 1 + max(...)
ReturnUp ==
    /\ pc = "return"
    /\ stack # <<>>
    /\ LET top == stack[Len(stack)]
       IN  /\ top.i = Len(top.children)
           /\ ret' = 1 + Max(top.best, ret)
    /\ stack' = SubSeq(stack, 1, Len(stack) - 1)
    /\ pc' = "return"
    /\ UNCHANGED <<nodes, edges, s, todo, visited, arg, expanded, entered,
                   calls, prev, prevNodes, prevEdges, lastop>>

\* scorer.py:63: s.max_depth = max(s.max_depth, depth)
ReturnTop ==
    /\ pc = "return"
    /\ stack = <<>>
    /\ s' = [s EXCEPT !.max_depth = Max(s.max_depth, ret)]
    /\ pc' = "pipelines"
    /\ UNCHANGED <<nodes, edges, todo, visited, stack, arg, ret, expanded, entered,
                   calls, prev, prevNodes, prevEdges, lastop>>

\* a faulty variant: the scorer reverses graph.edges in place on its way out
Finish_ReversesEdges ==
    /\ pc = "pipelines"
    /\ todo = <<>>
    /\ s' = Finished(s, nodes, edges)
    /\ edges' = [i \in DOMAIN edges |-> edges[Len(edges) + 1 - i]]
    /\ pc' = "done"
    /\ UNCHANGED <<nodes, todo, visited, stack, arg, ret, expanded, entered,
                   calls, prev, prevNodes, prevEdges, lastop>>

\* scorer.py:65-150: the scores, and the return
Finish ==
    /\ pc = "pipelines"
    /\ todo = <<>>
    /\ s' = Finished(s, nodes, edges)
    /\ pc' = "done"
    /\ UNCHANGED <<nodes, edges, todo, visited, stack, arg, ret, expanded, entered,
                   calls, prev, prevNodes, prevEdges, lastop>>

----------------------------------------------------------------------------
(* The caller, between two calls of compute_scores.                        *)

\* the caller keeps the Scores it got and calls compute_scores on the graph as it
\* now is; the locals of the finished call are gone
CallAgain(ns, es, op) ==
    /\ nodes' = ns
    /\ edges' = es
    /\ prev' = s
    /\ prevNodes' = nodes
    /\ prevEdges' = edges
    /\ lastop' = op
    /\ calls' = calls + 1
    /\ pc' = "start"
    /\ s' = NewScores
    /\ todo' = <<>>
    /\ visited' = {}
    /\ stack' = <<>>
    /\ arg' = Ghost
    /\ ret' = 0
    /\ expanded' = <<>>
    /\ entered' = 0

\* compute_scores(g) once more on the unchanged graph
Again ==
    /\ pc = "done"
    /\ calls < MaxCalls
    /\ CallAgain(nodes, edges, "again")

\* g.add_node(EnvironmentNode(...)) on a graph that has environments, then
\* compute_scores(g)
AddEnvironment ==
    /\ pc = "done"
    /\ calls = 1
    /\ \E i \in DOMAIN nodes : nodes[i].node_type = "ENVIRONMENT"
    /\ CallAgain(Append(nodes, Plain(Len(nodes) + 1, "ENVIRONMENT")), edges, "add_env")

\* the same edges in another order: two neighbours exchanged
SwapEdges ==
    /\ pc = "done"
    /\ calls = 1
    /\ \E i \in 1..(Len(edges) - 1) :
        /\ edges[i] # edges[i + 1]
        /\ CallAgain(nodes, [edges EXCEPT ![i] = edges[i + 1], ![i + 1] = edges[i]],
                     "swap")

\* the same graph without one CALLS edge whose target is the id of no node
DropDangling ==
    /\ pc = "done"
    /\ calls = 1
    /\ \E i \in DOMAIN edges :
        /\ edges[i].edge_type = "CALLS"
        /\ \A j \in DOMAIN nodes : nodes[j].id # edges[i].target_node_id
        /\ CallAgain(nodes, SubSeq(edges, 1, i - 1) \o SubSeq(edges, i + 1, Len(edges)),
                     "drop")

Next ==
    \/ Begin
    \/ NextPipeline
    \/ EnterVisited
    \/ EnterLeaf
    \/ EnterInner
    \/ ReturnNext
    \/ ReturnUp
    \/ ReturnTop
    \/ Finish
    \/ Again
    \/ AddEnvironment
    \/ SwapEdges
    \/ DropDangling

Spec == Init /\ [][Next]_vars

\* the same program on the attribute, chain and sample graphs alone
SpecScores == InitScores /\ [][Next]_vars

----------------------------------------------------------------------------
(* Vocabulary of the properties.                                           *)

Done == pc = "done"

SetMax(S) == CHOOSE m \in S : \A x \in S : x <= m

NodeIds(ns) == {ns[i].id : i \in DOMAIN ns}

\* every id that occurs in the graph: node ids and edge endpoints
AllIds(ns, es) ==
    NodeIds(ns) \cup {es[i].source_node_id : i \in DOMAIN es}
                \cup {es[i].target_node_id : i \in DOMAIN es}

CallsEdges(es) == {i \in DOMAIN es : es[i].edge_type = "CALLS"}

\* number of ids on the longest path without repeated ids that starts at v and
\* follows CALLS edges only (ids already on the path are in seen)
RECURSIVE LongestSimple(_, _, _)
LongestSimple(es, v, seen) ==
    LET succ == {es[i].target_node_id :
                    i \in {j \in CallsEdges(es) : es[j].source_node_id = v}}
                \ (seen \cup {v})
    IN  IF succ = {} THEN 1
        ELSE 1 + SetMax({LongestSimple(es, w, seen \cup {v}) : w \in succ})

LongestFromPipelines(ns, es) ==
    LET ps == {ns[i].id : i \in {j \in DOMAIN ns : ns[j].node_type = "PIPELINE"}}
    IN  IF ps = {} THEN 0 ELSE SetMax({LongestSimple(es, p, {}) : p \in ps})

EmptyGraph == nodes = <<>> /\ edges = <<>>

CountsZero ==
    /\ s.node_count = 0
    /\ s.edge_count = 0
    /\ s.max_depth = 0
    /\ s.max_fan_out = 0
    /\ s.secret_count = 0
    /\ s.cross_trigger_count = 0
    /\ s.unpinned_image_count = 0

----------------------------------------------------------------------------
(* C1 *)

\* C1 as stated: for the empty graph all counts are 0, all three scores are 0.0,
\* pinned_image_ratio is 1.0 and doc_coverage is 0.0 with 5 doc types missing.
C1_EmptyAllScoresZero ==
    (Done /\ EmptyGraph) =>
        /\ CountsZero
        /\ s.complexity_score = 0
        /\ s.fragility_score = 0
        /\ s.maturity_score = 0
        /\ s.pinned_image_ratio = <<1, 1>>
        /\ s.doc_coverage = 0
        /\ s.missing_doc_types = 5

\* C1 amended: for the empty graph all counts are 0, complexity_score is 0.0,
\* pinned_image_ratio is 1.0, doc_coverage is 0.0 with 5 doc types missing;
\* fragility_score is 40.0 (5 missing doc types at 8 each) and maturity_score is
\* 16.7 (the pinned-image point, one of six).
C1_EmptyGraphScores ==
    (Done /\ EmptyGraph) =>
        /\ CountsZero
        /\ s.complexity_score = 0
        /\ s.fragility_score = 400
        /\ s.maturity_score = 167
        /\ s.pinned_image_ratio = <<1, 1>>
        /\ s.doc_coverage = 0
        /\ s.missing_doc_types = 5

C1_EmptyGraphScored == Done /\ EmptyGraph /\ calls = 1

----------------------------------------------------------------------------
(* C2 *)

\* C2: max_depth is the number of ids on the longest path without repetition
\* that starts at a PIPELINE node and follows CALLS edges only (0 without a
\* PIPELINE node).
C2_MaxDepthIsLongestPath ==
    Done => s.max_depth = LongestFromPipelines(nodes, edges)

----------------------------------------------------------------------------
(* C3 *)

\* C3: the Scores do not depend on the order of the edges: after two
\* neighbouring edges were exchanged, the call returns what the call before
\* returned.
C3_EdgeOrderIrrelevant ==
    (Done /\ lastop = "swap") => s = prev

----------------------------------------------------------------------------
(* C4 *)

NoRepeat(q) == \A i, j \in DOMAIN q : i # j => q[i] # q[j]

\* steps a call of compute_scores can still take, at most
Rank ==
    LET c == 1 + Cardinality(CallsEdges(edges))
        w == (2 * c) + 2
    IN  CASE pc = "start" -> (Len(Pipelines(nodes)) + 1) * w
          [] pc = "pipelines" -> Len(todo) * w
          [] pc \in {"call", "return"} ->
                (Len(todo) * w) + 1 + (2 * c)
                - ((2 * entered) - Len(stack) - (IF pc = "return" THEN 1 ELSE 0))
          [] OTHER -> -1

TraversalStep ==
    EnterVisited \/ EnterLeaf \/ EnterInner \/ ReturnNext \/ ReturnUp \/ ReturnTop

C4_Inv ==
    /\ NoRepeat(expanded)
    /\ Range(expanded) = visited
    /\ visited \subseteq AllIds(nodes, edges)
    /\ entered <= 1 + Cardinality(CallsEdges(edges))
    /\ Len(stack) <= Cardinality(visited)
    /\ ret >= 0
    /\ s.max_depth <= Cardinality(AllIds(nodes, edges))
    /\ pc \in {"call", "return"} => ENABLED TraversalStep

C4_Step ==
    /\ ~Done => (Rank' < Rank /\ Rank' >= -1)
    /\ (pc = "call" /\ arg \in visited) =>
           (ret' = 0 /\ pc' = "return" /\ expanded' = expanded /\ stack' = stack)

\* C4: on every graph, cyclic CALLS edges and self-loops included, a traversal
\* expands each id at most once per starting pipeline, a revisited id returns 0,
\* the traversal is never stuck and every step of a call lowers a bounded rank
\* (the call terminates), and
\* max_depth is at most the number of distinct ids of the graph.
C4_TraversalTerminates == [](C4_Inv) /\ [][C4_Step]_vars

HasCallsCycle ==
    \E i, j \in CallsEdges(edges) :
        /\ edges[i].source_node_id = edges[j].target_node_id
        /\ edges[j].source_node_id = edges[i].target_node_id

C4_CycleTraversed ==
    /\ Done
    /\ HasCallsCycle
    /\ entered > Len(expanded)
    /\ s.max_depth >= 2

----------------------------------------------------------------------------
(* C5 *)

\* C5: a CALLS edge whose target is the id of no node contributes no depth:
\* max_depth of the graph without that edge is max_depth of the graph with it.
C5_DanglingAddsNoDepth ==
    (Done /\ lastop = "drop") => s.max_depth = prev.max_depth

----------------------------------------------------------------------------
(* C6 *)

\* the weighted sum of the counts of a Scores record, in tenths
WeightedSum(n, e, d, f) == (10 * n) + (15 * e) + (50 * d) + (30 * f)

Clip(x) == IF x >= 1000 THEN 1000 ELSE x

\* C6: complexity_score is min(node_count*1.0 + edge_count*1.5 + max_depth*5 +
\* max_fan_out*3, 100.0) of the counts of the same record; it lies in [0, 100],
\* is exactly 100.0 when the sum is 100 or more, and does not fall when one of
\* the four counts grows by one.
C6_ComplexityFormula ==
    Done =>
        LET n == s.node_count
            e == s.edge_count
            d == s.max_depth
            f == s.max_fan_out
        IN  /\ n = Len(nodes) /\ e = Len(edges)
            /\ s.complexity_score = Clip(WeightedSum(n, e, d, f))
            /\ s.complexity_score \in 0..1000
            /\ WeightedSum(n, e, d, f) >= 1000 => s.complexity_score = 1000
            /\ ComplexityScore(n + 1, e, d, f) >= s.complexity_score
            /\ ComplexityScore(n, e + 1, d, f) >= s.complexity_score
            /\ ComplexityScore(n, e, d + 1, f) >= s.complexity_score
            /\ ComplexityScore(n, e, d, f + 1) >= s.complexity_score
            /\ ComplexityScore(n + 1, e + 1, d + 1, f + 1) <= 1000

C6_Clipped ==
    /\ Done
    /\ WeightedSum(s.node_count, s.edge_count, s.max_depth, s.max_fan_out) > 1000
    /\ s.complexity_score = 1000

----------------------------------------------------------------------------
(* C7 *)

NodesOfType(ty) == {i \in DOMAIN nodes : nodes[i].node_type = ty}

\* the tag of an image node, "latest" when the node has none
EffectiveTag(i) == IF nodes[i].tag = NoTag THEN "latest" ELSE nodes[i].tag

RequiredDocsPresent ==
    {d \in {"readme", "architecture", "runbook", "security_policy", "codeowners"} :
        \E i \in NodesOfType("DOC_FILE") : nodes[i].doc_type = d}

\* C7: fragility_score is min(secret_count*5 + cross_trigger_count*10 +
\* unpinned_image_count*15 + missing_doc_types*8, 100.0), the four counts being
\* the SECRET_REF nodes, the TRIGGERS edges, the CONTAINER_IMAGE nodes tagged
\* latest, stable or nightly, and 5 minus the number of distinct required doc
\* types some DOC_FILE node has (in 0..5, duplicates counted once).
C7_FragilityFormula ==
    Done =>
        /\ s.secret_count = Cardinality(NodesOfType("SECRET_REF"))
        /\ s.cross_trigger_count =
               Cardinality({i \in DOMAIN edges : edges[i].edge_type = "TRIGGERS"})
        /\ s.unpinned_image_count =
               Cardinality({i \in NodesOfType("CONTAINER_IMAGE") :
                               EffectiveTag(i) \in {"latest", "stable", "nightly"}})
        /\ s.missing_doc_types = 5 - Cardinality(RequiredDocsPresent)
        /\ s.missing_doc_types \in 0..5
        /\ s.fragility_score =
               Clip(10 * ((s.secret_count * 5) + (s.cross_trigger_count * 10)
                          + (s.unpinned_image_count * 15) + (s.missing_doc_types * 8)))

C7_DuplicateDocsAndCap ==
    /\ Done
    /\ \E i, j \in NodesOfType("DOC_FILE") :
           i # j /\ nodes[i].doc_type = nodes[j].doc_type /\ nodes[i].doc_type = "readme"
    /\ s.missing_doc_types = 4
    /\ s.fragility_score = 1000
    /\ s.secret_count > 0 /\ s.cross_trigger_count > 0 /\ s.unpinned_image_count > 0

----------------------------------------------------------------------------
(* C8 *)

One(b) == IF b THEN 1 ELSE 0

\* round(points/6*100, 1) for points = 0..6, in tenths
PointsWorth == <<0, 167, 333, 500, 667, 833, 1000>>

ImagesPinned == {i \in NodesOfType("CONTAINER_IMAGE") : nodes[i].pinned}

\* pinned-image ratio >= 0.8, the ratio being 1.0 without images
RatioPoint ==
    \/ NodesOfType("CONTAINER_IMAGE") = {}
    \/ 5 * Cardinality(ImagesPinned) >= 4 * Cardinality(NodesOfType("CONTAINER_IMAGE"))

ParallelPoint ==
    \/ \E i \in NodesOfType("STAGE") : nodes[i].parallel
    \/ s.max_fan_out >= 2

SixPoints ==
    One(s.has_caching) + One(ParallelPoint) + One(RatioPoint)
    + One(s.missing_doc_types <= 2) + One(s.has_retries)
    + One(Cardinality(NodesOfType("ENVIRONMENT")) >= 2)

\* C8: maturity_score is round(points/6*100, 1), points being the number of the
\* six conditions that hold: has_caching, has_parallelism (a parallel STAGE or
\* max_fan_out >= 2), pinned ratio >= 0.8 (1.0 without images), doc coverage
\* >= 0.6 (missing_doc_types <= 2), has_retries, has_env_isolation (two or more
\* ENVIRONMENT nodes).
C8_MaturityFormula ==
    Done =>
        /\ s.has_parallelism = ParallelPoint
        /\ s.has_env_isolation = (Cardinality(NodesOfType("ENVIRONMENT")) >= 2)
        /\ s.pinned_image_ratio =
               (IF NodesOfType("CONTAINER_IMAGE") = {} THEN <<1, 1>>
                ELSE <<Cardinality(ImagesPinned),
                       Cardinality(NodesOfType("CONTAINER_IMAGE"))>>)
        /\ s.doc_coverage = 10 - (2 * s.missing_doc_types)
        /\ (s.doc_coverage >= 6) = (s.missing_doc_types <= 2)
        /\ SixPoints \in 0..6
        /\ s.maturity_score = PointsWorth[SixPoints + 1]
        /\ s.maturity_score \in 0..1000

C8_AllSixAtTheThreshold ==
    /\ Done
    /\ s.maturity_score = 1000
    /\ s.pinned_image_ratio = <<4, 5>>
    /\ s.missing_doc_types = 2

----------------------------------------------------------------------------
(* C9 *)

EnvAdded ==
    /\ Done
    /\ lastop = "add_env"
    /\ Cardinality({i \in DOMAIN prevNodes : prevNodes[i].node_type = "ENVIRONMENT"}) = 1

\* points earned, read back from a maturity_score
PointsOf(score) == CHOOSE k \in 0..6 : PointsWorth[k + 1] = score

EnvPointGained ==
    /\ ~prev.has_env_isolation
    /\ s.has_env_isolation
    /\ PointsOf(s.maturity_score) = PointsOf(prev.maturity_score) + 1

\* C9 as stated: a second ENVIRONMENT node turns has_env_isolation on and adds
\* one point to maturity_score without affecting complexity_score or
\* fragility_score.
C9_EnvOnlyMaturity ==
    EnvAdded =>
        /\ EnvPointGained
        /\ s.complexity_score = prev.complexity_score
        /\ s.fragility_score = prev.fragility_score

\* C9 amended: a second ENVIRONMENT node turns has_env_isolation on and adds one
\* point to maturity_score without affecting fragility_score; node_count grows
\* by one, so complexity_score grows by 1.0, up to the cap of 100.0.
C9_EnvPointAndNodeCount ==
    EnvAdded =>
        /\ EnvPointGained
        /\ s.fragility_score = prev.fragility_score
        /\ s.node_count = prev.node_count + 1
        /\ s.edge_count = prev.edge_count
        /\ s.max_depth = prev.max_depth
        /\ s.max_fan_out = prev.max_fan_out
        /\ s.complexity_score = Clip(prev.complexity_score + 10)
        /\ [s EXCEPT !.node_count = 0, !.complexity_score = 0,
                     !.has_env_isolation = FALSE, !.maturity_score = 0]
           = [prev EXCEPT !.node_count = 0, !.complexity_score = 0,
                          !.has_env_isolation = FALSE, !.maturity_score = 0]

C9_SecondEnvironmentScored == EnvAdded /\ s.has_env_isolation /\ s.node_count >= 2

----------------------------------------------------------------------------
(* C10 *)

OutDegree(id) == Cardinality({i \in DOMAIN edges : edges[i].source_node_id = id})

\* C10: max_fan_out is the maximum over the nodes of the graph of the number
\* of edges whose source is the node's id, 0 without edges, also when some
\* edge has a source that is the id of no node.
C10_MaxFanOutOverNodes ==
    Done =>
        s.max_fan_out =
            (IF nodes = <<>> \/ edges = <<>> THEN 0
             ELSE SetMax({OutDegree(nodes[i].id) : i \in DOMAIN nodes}))

----------------------------------------------------------------------------
(* C11 *)

\* a Scores record as Scores() creates it, but for the three counts that the
\* prologue of compute_scores sets at once
FreshButCounts(sc) ==
    [sc EXCEPT !.node_count = 0, !.edge_count = 0, !.max_fan_out = 0] = NewScores

C11_Inv ==
    \* a repeated call on the unchanged graph returns what the call before returned
    /\ (Done /\ lastop = "again") =>
           (s = prev /\ nodes = prevNodes /\ edges = prevEdges)
    \* every traversal starts from an empty visited set and an empty stack
    /\ (pc = "call" /\ entered = 0) => (visited = {} /\ stack = <<>> /\ expanded = <<>>)
    \* before the depth loop the record holds nothing but the counts of this graph
    /\ (pc = "pipelines" /\ todo = Pipelines(nodes)) =>
           (FreshButCounts(s) /\ s.node_count = Len(nodes) /\ s.edge_count = Len(edges))

C11_Step ==
    \* a call never writes to the graph
    /\ ~Done => (nodes' = nodes /\ edges' = edges)
    \* neither does the caller who only calls again
    /\ lastop' = "again" => (nodes' = nodes /\ edges' = edges)
    \* the result of a finished call is what the caller holds afterwards
    /\ (Done /\ pc' = "start") => prev' = s

\* C11: compute_scores is read-only and idempotent: no step of a call changes
\* graph.nodes (attributes included) or graph.edges, each call starts from a
\* fresh Scores record and each traversal from an empty visited set, and a
\* call repeated on the unchanged graph returns a record equal field for field
\* to the one the call before returned (hence to the first call's).
C11_ReadOnlyIdempotent == [](C11_Inv) /\ [][C11_Step]_vars

C11_RepeatedCallDone ==
    /\ Done
    /\ lastop = "again"
    /\ calls >= 2
    /\ s.max_depth >= 2
    /\ Len(edges) >= 2
    /\ edges[1] # edges[Len(edges)]

----------------------------------------------------------------------------
(* C12 *)

MentionsRetry(n) ==
    \/ Contains(<<"r", "e", "t", "r", "y">>, Lower(n.command))
    \/ Contains(<<"r", "e", "t", "r", "y">>, Lower(StrDict(n.metadata)))

\* C12: has_retries is true exactly when some node has a command or a
\* stringified metadata that contains "retry", letter case ignored.
C12_RetryAnyCase ==
    Done => (s.has_retries = (\E i \in DOMAIN nodes : MentionsRetry(nodes[i])))

====
